---- MODULE Spec2Model ----
(***************************************************************************)
(* Photobooth: the Edit Handler (api/photobooth/edit/route.ts), the Upload *)
(* Handler (api/photobooth/upload/route.ts) and the Client Controller      *)
(* (the photobooth page and app/dev/edit-test/page.tsx).                   *)
(*                                                                         *)
(* Three specifications share the module, one per component:               *)
(*   SpecEdit    one Edit Handler invocation on a request drawn by Init    *)
(*   SpecUpload  NumUploads concurrent Upload Handler invocations sharing  *)
(*               the file system                                           *)
(*   SpecClient  one Client Controller session (either page)               *)
(*   SpecCamera  one photobooth session: camera, countdown, capture and     *)
(*               teardown                                                  *)
(***************************************************************************)
EXTENDS Integers, Sequences, FiniteSets, TLC

VARIABLES
    \* ---- Edit Handler (one invocation)
    ereq,       \* the incoming request and the environment it runs in
    epc,        \* the await the handler is suspended at, or "done"
    ecalls,     \* the generateContent requests sent upstream, in order
    eanswer,    \* the provider's answers received, in order
    eresp,      \* the responses the handler has returned, in order
    \* ---- Upload Handler (concurrent invocations) and the file system
    ureq,       \* per invocation: the request
    upc,        \* per invocation: the await it is suspended at, or "done"
    uname,      \* per invocation: the generated file name (once made)
    uwritten,   \* per invocation: bytes handed to the file so far
    uresp,      \* per invocation: the responses returned, in order
    dirs,       \* whether public/uploads exists
    files,      \* the files under public/uploads: name -> content
    \* ---- Client Controller (one session of one page)
    page,           \* "photobooth" or "edit-test"
    navigatorOk,    \* whether navigator.mediaDevices.getUserMedia exists
    cameraFaults,   \* whether getUserMedia, getContext and toBlob can fail here
    file,           \* the selected image (NoFile for null)
    loading,        \* "null", "upload" or "edit"
    resultUrl,      \* the result reference (NoResult for null)
    error,          \* <<>> for null, <<message>> otherwise
    ops,            \* the outbound calls in flight, by slot
    cameraError,    \* <<>> for null, <<message>> otherwise
    cameraActive,
    streamRef,      \* streamRef.current: 0 for null, 1 for a (live) MediaStream
    liveStreams,    \* how many acquired streams have tracks not yet stopped
    acquiring,      \* requestCamera calls suspended at getUserMedia
    playing,        \* requestCamera calls suspended at video.play()
    countdown,      \* Null, or the number shown
    isCountingDown,
    countdownTimer, \* countdownTimer.current: 0 for null, else an interval id
    timers,         \* the window's active interval ids
    pendingTicks,   \* setCountdown updaters queued and not yet rendered
    pendingBlobs,   \* captureFrame calls suspended at canvas.toBlob
    ticksDone,      \* history: ticks counted since the countdown started
    captureLog,     \* history: ticksDone at each captureFrame call of this countdown
    reentered,      \* history: startCountdown calls this countdown has ignored
    mounted,        \* whether the page component is mounted
    lateSets,       \* history: which continuations called state setters after teardown
    objectUrls      \* history: object URLs created and not revoked; Null in the
                    \* sessions that do not record it

evars == <<ereq, epc, ecalls, eanswer, eresp>>
uvars == <<ureq, upc, uname, uwritten, uresp, dirs, files>>
opvars == <<file, loading, resultUrl, error, ops, objectUrls>>
camvars == <<cameraError, cameraActive, streamRef, liveStreams, acquiring, playing>>
cdvars == <<countdown, isCountingDown, countdownTimer, timers, pendingTicks, ticksDone, captureLog,
            reentered>>
lifevars == <<mounted, lateSets>>
cvars == <<page, navigatorOk, cameraFaults, opvars, camvars, cdvars, pendingBlobs, lifevars>>
vars  == <<evars, uvars, cvars>>

(***************************************************************************)
(* Bounds                                                                  *)
(***************************************************************************)
MaxParts == 2        \* content parts of an upstream candidate
MaxBytes == 2        \* bytes of an input file
NumUploads == 2      \* concurrent Upload Handler invocations
MaxClock == 0        \* wall-clock readings 0..MaxClock
MaxOps == 2          \* slots for outbound calls in flight
MaxPending == 2      \* callbacks of one kind pending at a time
MaxStreams == 2      \* camera streams live or being acquired at a time
MaxUrls == 3         \* object URLs recorded as created and not revoked
MaxTimers == 2       \* interval timers active at a time

ByteVals == {0, 255}

RECURSIVE SeqsUpTo(_, _)
SeqsUpTo(S, n) ==
    IF n = 0 THEN {<<>>}
    ELSE LET shorter == SeqsUpTo(S, n - 1)
         IN  shorter \cup {Append(s, x) : s \in {t \in shorter : Len(t) = n - 1}, x \in S}

Blobs == SeqsUpTo(ByteVals, MaxBytes)

(***************************************************************************)
(* base64, as Buffer.toString("base64") and Buffer.from(s, "base64") do    *)
(* it: a string is a sequence of sextets 0..63, Pad stands for "=".        *)
(***************************************************************************)
Pad == 64

RECURSIVE Base64Encode(_)
Base64Encode(b) ==
    IF Len(b) = 0 THEN <<>>
    ELSE IF Len(b) = 1 THEN
        << b[1] \div 4, (b[1] % 4) * 16, Pad, Pad >>
    ELSE IF Len(b) = 2 THEN
        << b[1] \div 4, (b[1] % 4) * 16 + (b[2] \div 16), (b[2] % 16) * 4, Pad >>
    ELSE
        << b[1] \div 4, (b[1] % 4) * 16 + (b[2] \div 16),
           (b[2] % 16) * 4 + (b[3] \div 64), b[3] % 64 >>
        \o Base64Encode(SubSeq(b, 4, Len(b)))

\* The sextets before the first "=": the decoder stops at padding.
RECURSIVE Base64Payload(_)
Base64Payload(s) ==
    IF Len(s) = 0 \/ s[1] = Pad THEN <<>>
    ELSE <<s[1]>> \o Base64Payload(Tail(s))

RECURSIVE Base64DecodeSextets(_)
Base64DecodeSextets(s) ==
    IF Len(s) < 2 THEN <<>>
    ELSE IF Len(s) = 2 THEN
        << s[1] * 4 + (s[2] \div 16) >>
    ELSE IF Len(s) = 3 THEN
        << s[1] * 4 + (s[2] \div 16), (s[2] % 16) * 16 + (s[3] \div 4) >>
    ELSE
        << s[1] * 4 + (s[2] \div 16), (s[2] % 16) * 16 + (s[3] \div 4),
           (s[3] % 4) * 64 + s[4] >>
        \o Base64DecodeSextets(SubSeq(s, 5, Len(s)))

Base64Decode(s) == Base64DecodeSextets(Base64Payload(s))

fileToBase64(f) == Base64Encode(f.bytes)

(***************************************************************************)
(* Form fields.  form.get(name) yields null (absent), a string or a File.  *)
(***************************************************************************)
AbsentField == [kind |-> "absent", text |-> "", bytes |-> <<>>, type |-> "", name |-> <<>>]
TextField(t) == [kind |-> "text", text |-> t, bytes |-> <<>>, type |-> "", name |-> <<>>]
FileField(b, ty, n) == [kind |-> "file", text |-> "", bytes |-> b, type |-> ty, name |-> n]

\* Mutant: the missing-file check accepts everything.
Truthy_Always(field) == TRUE

\* JavaScript truthiness of a form value: null and "" are falsy.
Truthy(field) ==
    \/ field.kind = "file"
    \/ field.kind = "text" /\ field.text # ""

\* String(form.get("instruction") ?? "")
InstructionOf(field) ==
    IF field.kind = "absent" THEN ""
    ELSE IF field.kind = "text" THEN field.text
    ELSE "[object File]"

\* A thrown value: err instanceof Error ? err.message : <fallback>
ErrorValues ==
    { [isError |-> TRUE, message |-> "fetch failed"],
      [isError |-> FALSE, message |-> ""] }
MessageOf(err, fallback) == IF err.isError THEN err.message ELSE fallback

JsonResponse(status, msg) ==
    [status |-> status, json |-> TRUE, error |-> msg, url |-> <<>>, body |-> <<>>,
     contentType |-> "application/json", cacheControl |-> ""]
BytesResponse(bytes, ctype) ==
    [status |-> 200, json |-> FALSE, error |-> "", url |-> <<>>, body |-> bytes,
     contentType |-> ctype, cacheControl |-> "no-store"]

(***************************************************************************)
(* The upstream provider's answer: candidates, each with ordered parts.    *)
(* A part may carry inlineData, whose data and mimeType are both optional. *)
(***************************************************************************)
TextPart == [inline |-> FALSE, hasData |-> FALSE, data |-> <<>>, mimeType |-> ""]
InlinePart(hasData, data, mime) ==
    [inline |-> TRUE, hasData |-> hasData, data |-> data, mimeType |-> mime]

PartKinds ==
    { TextPart,
      InlinePart(FALSE, <<>>, "image/png"),                   \* inlineData without data
      InlinePart(TRUE, <<>>, "image/png"),                    \* data: ""
      InlinePart(TRUE, Base64Encode(<<255, 0>>), "image/jpeg"),
      InlinePart(TRUE, Base64Encode(<<0, 255, 0>>), "") }      \* no mimeType

ImageCandidate == << InlinePart(TRUE, Base64Encode(<<255>>), "image/webp") >>

UpstreamResponses ==
    {<<>>} \cup { <<ps>> : ps \in SeqsUpTo(PartKinds, MaxParts) }
           \cup { <<ps, ImageCandidate>> : ps \in SeqsUpTo(PartKinds, MaxParts) }

\* response.candidates?.[0]?.content?.parts ?? []
FirstCandidateParts(response) == IF Len(response) = 0 THEN <<>> ELSE response[1]

\* p.inlineData?.data !== undefined
DataDefined(p) == p.inline /\ p.hasData

\* parts.find(pred): the index of the first matching part, 0 when none
RECURSIVE FindFrom(_, _)
FindFrom(parts, i) ==
    IF i > Len(parts) THEN 0
    ELSE IF DataDefined(parts[i]) THEN i
    ELSE FindFrom(parts, i + 1)
FindImagePart(parts) == FindFrom(parts, 1)

\* !imgPart?.inlineData?.data : nothing found, or the found data is ""
NoImage(parts) ==
    LET i == FindImagePart(parts)
    IN  i = 0 \/ parts[i].data = <<>>

\* Mutant: the part's mimeType is passed on without the default.
ExtractResponse_NoDefault(response) ==
    LET parts == FirstCandidateParts(response)
        imgPart == parts[FindImagePart(parts)]
    IN  IF NoImage(parts)
        THEN JsonResponse(502, "No image returned from model")
        ELSE BytesResponse(Base64Decode(imgPart.data), imgPart.mimeType)

\* lines 63-85: the response built from the provider's answer
ExtractResponse(response) ==
    LET parts == FirstCandidateParts(response)
        imgPart == parts[FindImagePart(parts)]
    IN  IF NoImage(parts)
        THEN JsonResponse(502, "No image returned from model")
        ELSE BytesResponse(Base64Decode(imgPart.data),
                           IF imgPart.mimeType # "" THEN imgPart.mimeType ELSE "image/png")

\* Mutant: the credential is checked before the instruction.
EditValidation_KeyFirst(req) ==
    IF ~Truthy(req.file) THEN <<JsonResponse(400, "Missing file")>>
    ELSE IF ~req.key THEN <<JsonResponse(500, "Missing GEMINI_API_KEY")>>
    ELSE IF InstructionOf(req.instruction) = "" THEN <<JsonResponse(400, "Missing instruction")>>
    ELSE <<>>

\* lines 29-37: the validation chain; <<>> when the request passes
EditValidation(req) ==
    IF ~Truthy(req.file) THEN <<JsonResponse(400, "Missing file")>>
    ELSE IF InstructionOf(req.instruction) = "" THEN <<JsonResponse(400, "Missing instruction")>>
    ELSE IF ~req.key THEN <<JsonResponse(500, "Missing GEMINI_API_KEY")>>
    ELSE <<>>

\* lines 45-61: the generateContent request
UpstreamRequest(req) ==
    [mimeType |-> IF req.file.type # "" THEN req.file.type ELSE "image/jpeg",
     data |-> fileToBase64(req.file),
     text |-> InstructionOf(req.instruction)]

\* lines 86-90
EditCatch(err) == JsonResponse(500, MessageOf(err, "Server error"))

EditFiles ==
    { AbsentField, TextField(""), TextField("x") }
      \cup { FileField(b, ty, <<>>) : b \in Blobs, ty \in {"", "image/png"} }
EditInstructions ==
    { AbsentField, TextField(""), TextField("Corporate headshot."),
      FileField(<<>>, "", <<>>) }
EditRequests ==
    [parse : BOOLEAN, file : EditFiles, instruction : EditInstructions, key : BOOLEAN]

EditInit ==
    /\ ereq \in EditRequests
    /\ epc = "formData"
    /\ ecalls = <<>>
    /\ eanswer = <<>>
    /\ eresp = <<>>

\* line 25 resolves or rejects; lines 26-39 run up to the next await
EditFormData ==
    /\ epc = "formData"
    /\ IF ~ereq.parse
       THEN \E err \in ErrorValues :
              /\ eresp' = Append(eresp, EditCatch(err))
              /\ epc' = "done"
       ELSE IF EditValidation(ereq) # <<>>
       THEN /\ eresp' = eresp \o EditValidation(ereq)
            /\ epc' = "done"
       ELSE /\ eresp' = eresp
            /\ epc' = "arrayBuffer"
    /\ UNCHANGED <<ereq, ecalls, eanswer>>
    /\ UNCHANGED <<uvars, cvars>>

\* lines 9-11 and 39-61: the file is read and encoded, the provider is called
EditFileToBase64 ==
    /\ epc = "arrayBuffer"
    /\ \/ /\ ereq.file.kind = "file"
          /\ ecalls' = Append(ecalls, UpstreamRequest(ereq))
          /\ epc' = "generateContent"
          /\ eresp' = eresp
       \/ \E err \in ErrorValues :
            \* a text value has no arrayBuffer(); reading a File may also fail
            /\ ereq.file.kind # "file" => err.isError
            /\ eresp' = Append(eresp, EditCatch(err))
            /\ epc' = "done"
            /\ ecalls' = ecalls
    /\ UNCHANGED <<ereq, eanswer>>
    /\ UNCHANGED <<uvars, cvars>>

\* Mutant: a failed provider call is retried once.
EditGenerateContent_Retry ==
    /\ epc = "generateContent"
    /\ \/ \E response \in UpstreamResponses :
            /\ eanswer' = Append(eanswer, response)
            /\ eresp' = Append(eresp, ExtractResponse(response))
            /\ epc' = "done"
            /\ ecalls' = ecalls
       \/ \E err \in ErrorValues :
            /\ eanswer' = eanswer
            /\ IF Len(ecalls) < 2
               THEN /\ ecalls' = Append(ecalls, UpstreamRequest(ereq))
                    /\ UNCHANGED <<eresp, epc>>
               ELSE /\ eresp' = Append(eresp, EditCatch(err))
                    /\ epc' = "done"
                    /\ ecalls' = ecalls
    /\ UNCHANGED ereq
    /\ UNCHANGED <<uvars, cvars>>

\* line 45 resolves or rejects; lines 63-85 or 86-90
EditGenerateContent ==
    /\ epc = "generateContent"
    /\ \/ \E response \in UpstreamResponses :
            /\ eanswer' = Append(eanswer, response)
            /\ eresp' = Append(eresp, ExtractResponse(response))
       \/ \E err \in ErrorValues :
            /\ eanswer' = eanswer
            /\ eresp' = Append(eresp, EditCatch(err))
    /\ epc' = "done"
    /\ UNCHANGED <<ereq, ecalls>>
    /\ UNCHANGED <<uvars, cvars>>



(***************************************************************************)
(* Upload Handler                                                          *)
(***************************************************************************)
\* File names are sequences of characters.
FileNames == { <<>>, <<"p", "i", "c">>, <<"a", ".", "J", "P", "G">> }

\* name.split(".").pop(): what follows the last ".", the whole name without one
RECURSIVE LastSegment(_)
LastSegment(name) ==
    IF \A i \in 1..Len(name) : name[i] # "." THEN name
    ELSE LastSegment(Tail(name))

LowerChar(c) ==
    CASE c = "J" -> "j"
      [] c = "P" -> "p"
      [] c = "G" -> "g"
      [] OTHER -> c
toLowerCase(str) == [i \in 1..Len(str) |-> LowerChar(str[i])]

\* line 25: (file.name?.split(".").pop() || "png").toLowerCase()
ExtOf(name) ==
    toLowerCase(IF LastSegment(name) # <<>> THEN LastSegment(name) ELSE <<"p", "n", "g">>)

\* Mutant: the name is made of the timestamp and the extension only.
Filename_NoUuid(ts, uuid, ext) == [ts |-> ts, uuid |-> 0, ext |-> ext]

\* line 26: `${Date.now()}-${randomUUID()}.${ext}`
Filename(ts, uuid, ext) == [ts |-> ts, uuid |-> uuid, ext |-> ext]
NoName == Filename(-1, 0, <<>>)

\* randomUUID(): an identifier no other call returns; the call made by
\* invocation i yields i
randomUUID(i) == i

\* lines 21, 27: path.join(process.cwd(), "public", "uploads", filename)
FilePath(filename) == <<"public", "uploads", filename>>
\* line 33: `/uploads/${filename}`
PublicUrl(filename) == <<"uploads", filename>>
\* the static server resolves a URL under the public directory
ServedPath(url) == <<"public">> \o url

UrlResponse(url) ==
    [status |-> 200, json |-> TRUE, error |-> "", url |-> url, body |-> <<>>,
     contentType |-> "application/json", cacheControl |-> ""]

\* lines 36-40
UploadCatch(err) == JsonResponse(500, MessageOf(err, "Upload failed"))

\* write(fd, chunk, position): the file's content after the write
WriteAt(old, off, chunk) ==
    [i \in 1..(IF Len(old) > off + Len(chunk) THEN Len(old) ELSE off + Len(chunk)) |->
        IF i > off /\ i <= off + Len(chunk) THEN chunk[i - off]
        ELSE IF i <= Len(old) THEN old[i]
        ELSE 0]

Uploads == 1..NumUploads

\* The content an invocation uploads: empty, or MaxBytes bytes tagged with the
\* invocation's number, so that two writers' contents differ.
UploadBlobs(i) == { <<>>, [k \in 1..MaxBytes |-> i] }
\* The files an invocation may receive: every name occurs, and every content
\* occurs under a name with and a name without a "."
UploadFiles(i) ==
    { FileField(b, "image/png", n) :
        b \in UploadBlobs(i), n \in FileNames \ {<<>>} }
    \cup { FileField(<<>>, "image/png", <<>>) }
UploadRequests(i) ==
    { [parse |-> FALSE, file |-> AbsentField],
      [parse |-> TRUE, file |-> AbsentField],
      [parse |-> TRUE, file |-> TextField("")] }
    \cup { [parse |-> TRUE, file |-> f] : f \in UploadFiles(i) }

UploadInit ==
    /\ ureq \in {r \in [Uploads -> UNION {UploadRequests(i) : i \in Uploads}] :
                   \A i \in Uploads : r[i] \in UploadRequests(i)}
    /\ upc = [i \in Uploads |-> "formData"]
    /\ uname = [i \in Uploads |-> NoName]
    /\ uwritten = [i \in Uploads |-> 0]
    /\ uresp = [i \in Uploads |-> <<>>]
    /\ dirs = FALSE
    /\ files = <<>>

UploadRespond(i, response) ==
    /\ uresp' = [uresp EXCEPT ![i] = Append(@, response)]
    /\ upc' = [upc EXCEPT ![i] = "done"]

\* a rejected formData() or arrayBuffer() (any thrown value)
UploadThrow(i) == \E err \in ErrorValues : UploadRespond(i, UploadCatch(err))
\* a rejected fs call: fs rejects with an Error
FsError == [isError |-> TRUE, message |-> "ENOSPC: no space left on device"]
\* Mutant: a rejected fs call escapes the handler, which ends with no response.
UploadFsThrow_Uncaught(i) ==
    /\ upc' = [upc EXCEPT ![i] = "done"]
    /\ uresp' = uresp

UploadFsThrow(i) == UploadRespond(i, UploadCatch(FsError))

\* line 10 resolves or rejects; lines 11-17 run up to the next await
UploadFormData(i) ==
    /\ upc[i] = "formData"
    /\ IF ~ureq[i].parse THEN UploadThrow(i)
       ELSE IF ~Truthy(ureq[i].file)
       THEN UploadRespond(i, JsonResponse(400, "Missing file"))
       ELSE /\ upc' = [upc EXCEPT ![i] = "arrayBuffer"]
            /\ uresp' = uresp
    /\ UNCHANGED <<ureq, uname, uwritten, dirs, files>>
    /\ UNCHANGED <<evars, cvars>>

\* line 17 resolves or rejects; lines 18-22 call mkdir
UploadArrayBuffer(i) ==
    /\ upc[i] = "arrayBuffer"
    /\ \/ /\ ureq[i].file.kind = "file"
          /\ upc' = [upc EXCEPT ![i] = "mkdir"]
          /\ uresp' = uresp
       \/ UploadFsThrow(i)
    /\ UNCHANGED <<ureq, uname, uwritten, dirs, files>>
    /\ UNCHANGED <<evars, cvars>>

\* line 22 resolves (the directory exists from now on) or rejects;
\* lines 25-30 make the name and call writeFile
UploadMkdir(i) ==
    /\ upc[i] = "mkdir"
    /\ \/ \E ts \in 0..MaxClock :
            /\ dirs' = TRUE
            /\ uname' = [uname EXCEPT ![i] =
                            Filename(ts, randomUUID(i), ExtOf(ureq[i].file.name))]
            /\ upc' = [upc EXCEPT ![i] = "open"]
            /\ uresp' = uresp
       \/ /\ UploadFsThrow(i)
          /\ UNCHANGED <<dirs, uname>>
    /\ UNCHANGED <<ureq, uwritten, files>>
    /\ UNCHANGED <<evars, cvars>>

\* fs.writeFile, first step: open(filepath, "w") creates or truncates the file
UploadOpen(i) ==
    /\ upc[i] = "open"
    /\ \/ /\ files' = [p \in DOMAIN files \cup {FilePath(uname[i])} |->
                          IF p = FilePath(uname[i]) THEN <<>> ELSE files[p]]
          /\ upc' = [upc EXCEPT ![i] = "write"]
          /\ uresp' = uresp
       \/ /\ UploadFsThrow(i)
          /\ files' = files
    /\ UNCHANGED <<ureq, uname, uwritten, dirs>>
    /\ UNCHANGED <<evars, cvars>>

\* fs.writeFile, the write loop: a write delivers some of the remaining bytes,
\* or fails and leaves the file as it is
UploadWrite(i) ==
    /\ upc[i] = "write"
    /\ uwritten[i] < Len(ureq[i].file.bytes)
    /\ \/ \E n \in 1..(Len(ureq[i].file.bytes) - uwritten[i]) :
            /\ files' = [files EXCEPT ![FilePath(uname[i])] =
                            WriteAt(@, uwritten[i],
                                    SubSeq(ureq[i].file.bytes, uwritten[i] + 1, uwritten[i] + n))]
            /\ uwritten' = [uwritten EXCEPT ![i] = @ + n]
            /\ UNCHANGED <<upc, uresp>>
       \/ /\ UploadFsThrow(i)
          /\ UNCHANGED <<files, uwritten>>
    /\ UNCHANGED <<ureq, uname, dirs>>
    /\ UNCHANGED <<evars, cvars>>

\* Mutant: the handler answers without awaiting the end of writeFile.
UploadWritten_Early(i) ==
    /\ upc[i] = "write"
    /\ UploadRespond(i, UrlResponse(PublicUrl(uname[i])))
    /\ UNCHANGED <<ureq, uname, uwritten, dirs, files>>
    /\ UNCHANGED <<evars, cvars>>

\* line 30 resolves once everything is written; lines 33-35 answer
UploadWritten(i) ==
    /\ upc[i] = "write"
    /\ uwritten[i] = Len(ureq[i].file.bytes)
    /\ UploadRespond(i, UrlResponse(PublicUrl(uname[i])))
    /\ UNCHANGED <<ureq, uname, uwritten, dirs, files>>
    /\ UNCHANGED <<evars, cvars>>


(***************************************************************************)
(* Client Controller                                                       *)
(***************************************************************************)
NoFile == 0
Images == {1, 2}
Null == -1

NoResult == [kind |-> "none", file |-> NoFile]
Result(kind, f) == [kind |-> kind, file |-> f]

\* What res.json() yields: null when the body is no JSON, else an object that
\* may carry `error` (<<>> when it carries none; the handlers' catch sends
\* err.message, which may be the empty string) and may carry `url`.
NullData == [parsed |-> FALSE, error |-> <<>>, url |-> FALSE]
JsonData(err, url) == [parsed |-> TRUE, error |-> err, url |-> url]
DataValues ==
    { NullData, JsonData(<<>>, FALSE), JsonData(<<"No image returned from model">>, FALSE),
      JsonData(<<"">>, FALSE), JsonData(<<>>, TRUE) }

IdleOp ==
    [kind |-> "none", stage |-> "idle", file |-> NoFile, ok |-> FALSE, prior |-> NoResult,
     data |-> NullData]
Slots == 1..MaxOps
InFlight == {k \in Slots : ops[k].kind # "none"}

\* The payload of a response is one of DataValues.  A session that records
\* its object URLs also records the payload from the arrival of the response;
\* the other sessions draw it when safeJson reads it.
Recorded == objectUrls # Null
ArrivingData == IF Recorded THEN DataValues ELSE {NullData}
ReadData(k) == IF Recorded THEN {ops[k].data} ELSE DataValues

\* the type guards of page.tsx
isApiError_Parsed(x) == x.parsed
isApiError(x) == x.parsed /\ x.error # <<>>
isUploadOk(x) == x.parsed /\ x.url

ClientIdle ==
    /\ page = "none"
    /\ navigatorOk = FALSE
    /\ cameraFaults = FALSE
    /\ file = NoFile
    /\ loading = "null"
    /\ resultUrl = NoResult
    /\ error = <<>>
    /\ ops = [k \in Slots |-> IdleOp]
    /\ cameraError = <<>>
    /\ cameraActive = FALSE
    /\ streamRef = 0
    /\ liveStreams = 0
    /\ acquiring = 0
    /\ playing = 0
    /\ countdown = Null
    /\ isCountingDown = FALSE
    /\ countdownTimer = 0
    /\ timers = {}
    /\ pendingTicks = 0
    /\ pendingBlobs = 0
    /\ ticksDone = 0
    /\ reentered = FALSE
    /\ captureLog = <<>>
    /\ mounted = FALSE
    /\ lateSets = {}
    /\ objectUrls = Null

\* useState / useRef initial values
ClientInit ==
    /\ file = NoFile
    /\ loading = "null"
    /\ resultUrl = NoResult
    /\ error = <<>>
    /\ ops = [k \in Slots |-> IdleOp]
    /\ cameraError = <<>>
    /\ cameraActive = FALSE
    /\ streamRef = 0
    /\ liveStreams = 0
    /\ acquiring = 0
    /\ playing = 0
    /\ countdown = Null
    /\ isCountingDown = FALSE
    /\ countdownTimer = 0
    /\ timers = {}
    /\ pendingTicks = 0
    /\ pendingBlobs = 0
    /\ ticksDone = 0
    /\ reentered = FALSE
    /\ captureLog = <<>>
    /\ mounted = TRUE
    /\ lateSets = {}

\* what no client step changes
ClientEnv == UNCHANGED <<evars, uvars, page, navigatorOk, cameraFaults>>

\* the frame of a step that is no continuation of an async function
ClientFrame == ClientEnv /\ UNCHANGED lifevars

\* the frame of a continuation that calls state setters: on an unmounted
\* component React discards the update, and the call is recorded
SetterFrame(who) ==
    /\ ClientEnv
    /\ mounted' = mounted
    /\ lateSets' = IF mounted THEN lateSets ELSE lateSets \cup {who}

\* URL.createObjectURL is called n times (nothing in the pages calls
\* URL.revokeObjectURL); the recorded count stops the run at MaxUrls
CreateObjectURL(n) ==
    /\ objectUrls # Null => objectUrls + n <= MaxUrls
    /\ objectUrls' = IF objectUrls = Null THEN Null ELSE objectUrls + n

\* inputPreview (a useMemo on [file]): a new File selected makes the next
\* render create an object URL for it
InputPreview == CreateObjectURL(IF file' # file /\ file' # NoFile THEN 1 ELSE 0)

\* ---- selecting an image

\* onFileSelected (photobooth) / the input's onChange (edit-test); f = NoFile
\* is a change event without a file
FileSelected(f) ==
    /\ page # "none"
    /\ mounted
    /\ IF page = "photobooth"
       THEN IF f = NoFile
            THEN UNCHANGED <<file, resultUrl, error>>
            ELSE /\ file' = f
                 /\ resultUrl' = NoResult
                 /\ error' = <<>>
       ELSE /\ file' = f
            /\ UNCHANGED <<resultUrl, error>>
    /\ InputPreview
    /\ UNCHANGED <<loading, ops, camvars, cdvars, pendingBlobs>>
    /\ ClientFrame

\* ---- outbound operations

\* Mutant: the buttons stay enabled while an operation is loading.
ButtonEnabled_NoLoading == file # NoFile

\* disabled={!file || !!loading}
ButtonEnabled == file # NoFile /\ loading = "null"

FreeSlot == CHOOSE k \in Slots \ InFlight : \A j \in Slots \ InFlight : k <= j

\* the synchronous head of saveLocally / editWithGemini, up to the fetch
Trigger_NoClear(kind) ==
    /\ mounted
    /\ ButtonEnabled
    /\ Slots \ InFlight # {}
    /\ file # NoFile
    /\ loading' = kind
    /\ ops' = [ops EXCEPT ![FreeSlot] =
                  [kind |-> kind, stage |-> "fetch", file |-> file, ok |-> FALSE,
                   prior |-> resultUrl, data |-> NullData]]
    /\ UNCHANGED <<file, resultUrl, error, objectUrls, camvars, cdvars, pendingBlobs>>
    /\ ClientFrame
Trigger(kind) ==
    /\ mounted
    /\ ButtonEnabled
    /\ Slots \ InFlight # {}
    /\ file # NoFile
    /\ loading' = kind
    /\ error' = <<>>
    /\ resultUrl' = NoResult
    /\ ops' = [ops EXCEPT ![FreeSlot] =
                  [kind |-> kind, stage |-> "fetch", file |-> file, ok |-> FALSE,
                   prior |-> resultUrl, data |-> NullData]]
    /\ UNCHANGED <<file, objectUrls, camvars, cdvars, pendingBlobs>>
    /\ ClientFrame

ClickSave == page = "edit-test" /\ Trigger("upload")
ClickEdit == page # "none" /\ Trigger("edit")

\* the fetch promise settles: a response (ok or not), or a rejection, which
\* ends the async function with nothing caught
FetchSettles(k) ==
    /\ ops[k].stage = "fetch"
    /\ \/ \E ok \in BOOLEAN :
            IF ops[k].kind = "edit" /\ ok
            THEN ops' = [ops EXCEPT ![k].ok = ok, ![k].stage = "blob"]
            ELSE \E data \in ArrivingData :
                    ops' = [ops EXCEPT ![k].ok = ok, ![k].stage = "json", ![k].data = data]
       \/ ops' = [ops EXCEPT ![k] = IdleOp]
    /\ UNCHANGED <<file, loading, resultUrl, error, objectUrls, camvars, cdvars, pendingBlobs>>
    /\ ClientFrame

\* safeJson settles (it never rejects); saveLocally lines 70-81,
\* editWithGemini lines 184-187
JsonSettles(k) ==
    /\ ops[k].stage = "json"
    /\ IF ~mounted
       THEN UNCHANGED <<resultUrl, error, loading>>
       ELSE /\ \E data \in ReadData(k) :
                 IF ops[k].kind = "upload"
                 THEN IF ~ops[k].ok
                      THEN /\ error' = IF isApiError(data) THEN data.error ELSE <<"Upload failed">>
                           /\ resultUrl' = resultUrl
                      ELSE IF isUploadOk(data)
                      THEN /\ resultUrl' = Result("upload", ops[k].file)
                           /\ error' = error
                      ELSE /\ error' = <<"Upload failed">>
                           /\ resultUrl' = resultUrl
                 ELSE /\ error' = IF data.parsed /\ data.error # <<>> THEN data.error
                                  ELSE <<"Edit failed (check your /api/photobooth/edit backend)">>
                      /\ resultUrl' = resultUrl
            /\ loading' = "null"
    /\ ops' = [ops EXCEPT ![k] = IdleOp]
    /\ UNCHANGED <<file, objectUrls, camvars, cdvars, pendingBlobs>>
    /\ SetterFrame("operation")

\* res.blob() settles: lines 191-194, or a rejection that nothing catches
BlobSettles(k) ==
    /\ ops[k].stage = "blob"
    /\ \/ /\ CreateObjectURL(1)
          /\ IF mounted
             THEN /\ resultUrl' = Result("edit", ops[k].file)
                  /\ loading' = "null"
             ELSE UNCHANGED <<resultUrl, loading>>
          /\ SetterFrame("operation")
       \/ /\ UNCHANGED <<resultUrl, loading, objectUrls>>
          /\ ClientFrame
    /\ ops' = [ops EXCEPT ![k] = IdleOp]
    /\ UNCHANGED <<file, error, camvars, cdvars, pendingBlobs>>

\* ---- camera

\* videoRef.current: the <video> element exists while cameraActive is rendered
videoRef == mounted /\ cameraActive

\* cleanupCamera: the tracks of the stream the ref holds are stopped
cleanupCamera ==
    /\ liveStreams' = IF streamRef # 0 THEN liveStreams - 1 ELSE liveStreams
    /\ streamRef' = 0
    /\ cameraActive' = FALSE

\* toggleCamera: cleanupCamera, or requestCamera up to its first await
toggleCamera ==
    /\ page = "photobooth"
    /\ mounted
    /\ IF cameraActive
       THEN /\ cleanupCamera
            /\ UNCHANGED <<cameraError, acquiring>>
       ELSE IF ~navigatorOk
       THEN /\ cameraError' = <<"Camera not supported in this environment.">>
            /\ UNCHANGED <<cameraActive, streamRef, liveStreams, acquiring>>
       ELSE IF streamRef # 0
       THEN /\ cameraError' = <<>>
            /\ cameraActive' = TRUE
            /\ UNCHANGED <<streamRef, liveStreams, acquiring>>
       ELSE /\ acquiring + liveStreams < MaxStreams
            /\ cameraError' = <<>>
            /\ acquiring' = acquiring + 1
            /\ UNCHANGED <<cameraActive, streamRef, liveStreams>>
    /\ UNCHANGED <<playing, opvars, cdvars, pendingBlobs>>
    /\ ClientFrame

\* getUserMedia settles: lines 229-234, or the catch of lines 235-238
GetUserMediaSettles ==
    /\ acquiring > 0
    /\ acquiring' = acquiring - 1
    /\ \/ /\ liveStreams < MaxStreams
          /\ liveStreams' = liveStreams + 1
          /\ streamRef' = 1
          /\ IF videoRef
             THEN /\ playing < MaxPending
                  /\ playing' = playing + 1
                  /\ cameraActive' = cameraActive
                  /\ ClientFrame
             ELSE /\ cameraActive' = (mounted \/ cameraActive)
                  /\ playing' = playing
                  /\ SetterFrame("camera")
          /\ cameraError' = cameraError
       \/ /\ cameraFaults
          /\ cameraError' = IF mounted THEN <<"Unable to access camera. Check permissions.">>
                            ELSE cameraError
          /\ UNCHANGED <<liveStreams, streamRef, cameraActive, playing>>
          /\ SetterFrame("camera")
    /\ UNCHANGED <<opvars, cdvars, pendingBlobs>>

\* video.play() settles (its rejection is swallowed): line 234
PlaySettles ==
    /\ playing > 0
    /\ playing' = playing - 1
    /\ cameraActive' = (mounted \/ cameraActive)
    /\ UNCHANGED <<cameraError, streamRef, liveStreams, acquiring>>
    /\ UNCHANGED <<opvars, cdvars, pendingBlobs>>
    /\ SetterFrame("camera")

\* the cleanup of the mount effect (lines 267-275), run when the component
\* unmounts: cleanupCamera, then the interval the ref names is cleared (the
\* ref keeps the id)
Teardown ==
    /\ page = "photobooth"
    /\ mounted
    /\ mounted' = FALSE
    /\ cleanupCamera
    /\ timers' = timers \ {countdownTimer}
    /\ UNCHANGED <<cameraError, acquiring, playing>>
    /\ UNCHANGED <<countdown, isCountingDown, countdownTimer, pendingTicks, ticksDone,
                   captureLog, reentered>>
    /\ UNCHANGED <<opvars, pendingBlobs, lateSets>>
    /\ ClientEnv

\* ---- countdown and capture

\* line 331: setCountdown(5)
CountdownFrom == 5

\* Mutant: the re-entrancy guard never sees an active countdown.
CountdownActive_Never == FALSE

\* line 324: if (isCountingDown) return
CountdownActive == isCountingDown

FreshTimer(active) == CHOOSE t \in 1..MaxTimers : t \notin active /\
                          \A u \in 1..MaxTimers : u \notin active => t <= u

\* startCountdown: a call of the function in any state of the page.  (The
\* capture button, its one caller, is disabled while !cameraActive ||
\* isCountingDown; the function's own guards are what is modelled.)
startCountdown ==
    /\ page = "photobooth"
    /\ mounted
    /\ IF streamRef = 0 \/ ~videoRef
       THEN /\ cameraError' = <<"Enable the camera first.">>
            /\ UNCHANGED cdvars
       ELSE IF CountdownActive
       THEN /\ reentered' = TRUE
            /\ UNCHANGED <<cameraError, countdown, isCountingDown, countdownTimer,
                           timers, pendingTicks, ticksDone, captureLog>>
       ELSE LET cleared == timers \ {countdownTimer}
            IN  /\ Cardinality(cleared) < MaxTimers
                /\ timers' = cleared \cup {FreshTimer(cleared)}
                /\ countdownTimer' = FreshTimer(cleared)
                /\ isCountingDown' = TRUE
                /\ countdown' = CountdownFrom
                /\ ticksDone' = 0
                /\ reentered' = FALSE
                /\ captureLog' = <<>>
                /\ UNCHANGED <<cameraError, pendingTicks>>
    /\ UNCHANGED <<cameraActive, streamRef, liveStreams, acquiring, playing>>
    /\ UNCHANGED <<opvars, pendingBlobs>>
    /\ ClientFrame

\* an active interval fires: its callback queues one setCountdown updater
Tick ==
    /\ timers # {}
    /\ pendingTicks < MaxPending
    /\ pendingTicks' = pendingTicks + 1
    /\ UNCHANGED <<countdown, isCountingDown, countdownTimer, timers, ticksDone, captureLog,
                   reentered>>
    /\ UNCHANGED <<opvars, camvars, pendingBlobs>>
    /\ ClientFrame

\* lines 334-347: the value the updater returns for prev, and whether it took
\* the completion branch
CountdownUpdater(prev) ==
    IF prev = Null \/ prev = 0 THEN [next |-> prev, complete |-> FALSE]
    ELSE IF prev <= 1 THEN [next |-> Null, complete |-> TRUE]
    ELSE [next |-> prev - 1, complete |-> FALSE]

\* One queued updater is processed; React evaluates it `times` times for the
\* same prev.  The completion branch's effects happen at every evaluation.
ApplyUpdater(st, times) ==
    LET u == CountdownUpdater(st.countdown)
        counted == IF st.countdown = Null \/ st.countdown = 0 THEN 0 ELSE 1
    IN  IF u.complete
        THEN [countdown |-> Null,
              isCountingDown |-> FALSE,
              countdownTimer |-> 0,
              timers |-> st.timers \ {st.countdownTimer},
              ticksDone |-> st.ticksDone + counted,
              captureLog |-> st.captureLog \o [i \in 1..times |-> st.ticksDone + counted]]
        ELSE [st EXCEPT !.countdown = u.next, !.ticksDone = @ + counted]

RECURSIVE ApplyUpdaters(_, _, _)
ApplyUpdaters(st, n, times) ==
    IF n = 0 THEN st ELSE ApplyUpdaters(ApplyUpdater(st, times), n - 1, times)

\* React renders: every queued updater is processed, in order, each evaluated
\* once or (StrictMode, or a render that is restarted) twice.  Each
\* captureFrame call runs up to its await: lines 284-304.
Render ==
    /\ mounted
    /\ pendingTicks > 0
    /\ \E times \in 1..2 :
         LET st == ApplyUpdaters(
                       [countdown |-> countdown, isCountingDown |-> isCountingDown,
                        countdownTimer |-> countdownTimer, timers |-> timers,
                        ticksDone |-> ticksDone, captureLog |-> captureLog],
                       pendingTicks, times)
             calls == Len(st.captureLog) - Len(captureLog)
         IN  /\ countdown' = st.countdown
             /\ isCountingDown' = st.isCountingDown
             /\ countdownTimer' = st.countdownTimer
             /\ timers' = st.timers
             /\ ticksDone' = st.ticksDone
             /\ reentered' = reentered
             /\ captureLog' = st.captureLog
             /\ IF ~videoRef
                THEN UNCHANGED <<pendingBlobs, cameraError>>
                ELSE \E drawn \in 0..calls :
                       /\ drawn < calls => cameraFaults
                       /\ pendingBlobs + drawn <= MaxPending
                       /\ pendingBlobs' = pendingBlobs + drawn
                       /\ cameraError' = IF drawn < calls
                                         THEN <<"Unable to capture photo.">>
                                         ELSE cameraError
    /\ pendingTicks' = 0
    /\ UNCHANGED <<cameraActive, streamRef, liveStreams, acquiring, playing>>
    /\ UNCHANGED opvars
    /\ ClientFrame

\* new File(...): a File object that is not one seen before; the least image
\* that is neither selected nor being sent stands for it
FreshImages ==
    LET unused == Images \ ({file} \cup {ops[k].file : k \in InFlight})
    IN  {f \in unused : \A g \in unused : f <= g}

\* canvas.toBlob calls back: lines 305-315
ToBlobSettles ==
    /\ pendingBlobs > 0
    /\ pendingBlobs' = pendingBlobs - 1
    /\ \/ /\ cameraFaults
          /\ cameraError' = IF mounted THEN <<"Failed to read camera frame.">> ELSE cameraError
          /\ UNCHANGED <<file, resultUrl, error>>
       \/ \E f \in FreshImages :
            /\ file' = IF mounted THEN f ELSE file
            /\ resultUrl' = IF mounted THEN NoResult ELSE resultUrl
            /\ error' = IF mounted THEN <<>> ELSE error
            /\ cameraError' = cameraError
    /\ InputPreview
    /\ UNCHANGED <<loading, ops, cdvars>>
    /\ UNCHANGED <<cameraActive, streamRef, liveStreams, acquiring, playing>>
    /\ SetterFrame("capture")

(***************************************************************************)
(* Specifications                                                          *)
(***************************************************************************)
EditIdle ==
    /\ ereq = [parse |-> FALSE, file |-> AbsentField, instruction |-> AbsentField, key |-> FALSE]
    /\ epc = "idle"
    /\ ecalls = <<>>
    /\ eanswer = <<>>
    /\ eresp = <<>>

UploadIdle ==
    /\ ureq = <<>>
    /\ upc = <<>>
    /\ uname = <<>>
    /\ uwritten = <<>>
    /\ uresp = <<>>
    /\ dirs = FALSE
    /\ files = <<>>

InitEdit == EditInit /\ UploadIdle /\ ClientIdle
NextEdit ==
    \/ EditFormData
    \/ EditFileToBase64
    \/ EditGenerateContent
SpecEdit == InitEdit /\ [][NextEdit]_vars

InitUpload == UploadInit /\ EditIdle /\ ClientIdle
NextUpload ==
    \/ \E i \in DOMAIN ureq : UploadFormData(i)
    \/ \E i \in DOMAIN ureq : UploadArrayBuffer(i)
    \/ \E i \in DOMAIN ureq : UploadMkdir(i)
    \/ \E i \in DOMAIN ureq : UploadOpen(i)
    \/ \E i \in DOMAIN ureq : UploadWrite(i)
    \/ \E i \in DOMAIN ureq : UploadWritten(i)
SpecUpload == InitUpload /\ [][NextUpload]_vars


\* A session of either page in which the camera environment does not fail.
InitClient ==
    /\ page \in {"photobooth", "edit-test"}
    /\ navigatorOk = TRUE
    /\ cameraFaults = FALSE
    /\ objectUrls = Null
    /\ ClientInit /\ EditIdle /\ UploadIdle
NextClient ==
    \/ \E f \in Images \cup {NoFile} : FileSelected(f)
    \/ ClickSave
    \/ ClickEdit
    \/ \E k \in Slots : FetchSettles(k)
    \/ \E k \in Slots : JsonSettles(k)
    \/ \E k \in Slots : BlobSettles(k)
    \/ toggleCamera
    \/ GetUserMediaSettles
    \/ PlaySettles
    \/ startCountdown
    \/ Tick
    \/ Render
    \/ ToBlobSettles
SpecClient == InitClient /\ [][NextClient]_vars

\* A session of the photobooth page, up to and after its teardown, in which
\* the camera environment may fail and the user triggers no outbound operation (the camera, the countdown and
\* the capture neither read nor write loading and ops).
InitCamera ==
    /\ page = "photobooth"
    /\ navigatorOk \in BOOLEAN
    /\ cameraFaults = TRUE
    /\ objectUrls = Null
    /\ ClientInit /\ EditIdle /\ UploadIdle
NextCamera ==
    \/ \E f \in Images \cup {NoFile} : FileSelected(f)
    \/ toggleCamera
    \/ GetUserMediaSettles
    \/ PlaySettles
    \/ startCountdown
    \/ Tick
    \/ Render
    \/ ToBlobSettles
    \/ Teardown
SpecCamera == InitCamera /\ [][NextCamera]_vars

\* A session of either page in which no camera is used and every object URL
\* created is recorded.
InitPreview ==
    /\ page \in {"photobooth", "edit-test"}
    /\ navigatorOk = FALSE
    /\ cameraFaults = FALSE
    /\ objectUrls = 0
    /\ ClientInit /\ EditIdle /\ UploadIdle
NextPreview ==
    \/ \E f \in Images \cup {NoFile} : FileSelected(f)
    \/ ClickSave
    \/ ClickEdit
    \/ \E k \in Slots : FetchSettles(k)
    \/ \E k \in Slots : JsonSettles(k)
    \/ \E k \in Slots : BlobSettles(k)
    \/ Teardown
SpecPreview == InitPreview /\ [][NextPreview]_vars

\* Either handler, one at a time: the two are independent processes.
InitHandlers == InitEdit \/ InitUpload
NextHandlers == NextEdit \/ NextUpload
SpecHandlers == InitHandlers /\ [][NextHandlers]_vars

(***************************************************************************)
(* Claims                                                                  *)
(***************************************************************************)
InstructionMissing(req) ==
    \/ req.instruction.kind = "absent"
    \/ req.instruction.kind = "text" /\ req.instruction.text = ""

Answered(resps, status, msg) ==
    /\ Len(resps) = 1
    /\ resps[1].status = status
    /\ resps[1].json
    /\ resps[1].error = msg
    /\ resps[1].body = <<>>

\* C1: the Edit Handler validates in a fixed order.  A parsed request without a
\* file part is answered 400 "Missing file"; one with a file but an absent or
\* empty instruction 400 "Missing instruction"; one with file and instruction
\* but no credential 500 "Missing GEMINI_API_KEY"; in all three cases the
\* provider is never called.
C1_ValidationOrder ==
    ereq.parse =>
        /\ ereq.file.kind = "absent" =>
              /\ ecalls = <<>>
              /\ epc = "done" => Answered(eresp, 400, "Missing file")
        /\ ereq.file.kind = "file" /\ InstructionMissing(ereq) =>
              /\ ecalls = <<>>
              /\ epc = "done" => Answered(eresp, 400, "Missing instruction")
        /\ ereq.file.kind = "file" /\ ~InstructionMissing(ereq) /\ ~ereq.key =>
              /\ ecalls = <<>>
              /\ epc = "done" => Answered(eresp, 500, "Missing GEMINI_API_KEY")

\* A request with a file, an empty instruction and no credential has been
\* answered: the instruction check came first.
C1_Witness ==
    /\ epc = "done"
    /\ ereq.parse /\ ereq.file.kind = "file" /\ ereq.file.bytes # <<>>
    /\ ereq.instruction = TextField("") /\ ~ereq.key
    /\ Answered(eresp, 400, "Missing instruction")

\* C2: a parsed request without a `file` field is answered 400 by both
\* handlers; the Edit Handler never calls the provider for it, and no step of
\* an Upload Handler invocation on such a request creates the directory or
\* creates or changes a file.
C2_State ==
    /\ ereq.parse /\ ereq.file.kind = "absent" =>
          /\ ecalls = <<>>
          /\ epc = "done" => Len(eresp) = 1 /\ eresp[1].status = 400 /\ eresp[1].error # ""
    /\ \A i \in DOMAIN ureq :
          ureq[i].parse /\ ureq[i].file.kind = "absent" =>
              /\ uname[i] = NoName /\ uwritten[i] = 0
              /\ upc[i] = "done" =>
                    Len(uresp[i]) = 1 /\ uresp[i][1].status = 400 /\ uresp[i][1].error # ""
C2_Step ==
    \A i \in DOMAIN ureq :
        ureq[i].parse /\ ureq[i].file.kind = "absent" /\ upc'[i] # upc[i] =>
            UNCHANGED <<dirs, files>>
C2_MissingFile == []C2_State /\ [][C2_Step]_vars

\* An upload without a file has been answered 400 while another invocation
\* has created the directory and a file.
C2_Witness ==
    \E i \in DOMAIN ureq :
        /\ ureq[i].parse /\ ureq[i].file.kind = "absent"
        /\ upc[i] = "done" /\ Len(uresp[i]) = 1 /\ uresp[i][1].status = 400
        /\ dirs /\ files # <<>>

\* C3 (as claimed): once the provider has answered, the response is 502
\* exactly when no part of the first candidate carries inline image data, and
\* otherwise 200 with the decoded data of the first part that carries some.
CarriesImage(p) == p.inline /\ p.hasData /\ p.data # <<>>
C3_Extraction ==
    epc = "done" /\ eanswer # <<>> =>
        LET parts == IF Len(eanswer[1]) = 0 THEN <<>> ELSE eanswer[1][1]
            carriers == {i \in 1..Len(parts) : CarriesImage(parts[i])}
            first == CHOOSE i \in carriers : \A j \in carriers : i <= j
        IN  /\ Len(eresp) = 1
            /\ IF carriers = {}
               THEN eresp[1].status = 502 /\ eresp[1].body = <<>>
               ELSE /\ eresp[1].status = 200
                    /\ eresp[1].body = Base64Decode(parts[first].data)

\* C4 (as claimed): a file that exists under an invocation's final path holds
\* the complete input of that invocation.
C4_NoPartialFile ==
    \A i \in DOMAIN ureq :
        FilePath(uname[i]) \in DOMAIN files =>
            files[FilePath(uname[i])] = ureq[i].file.bytes

\* C5: an upload answered 200 returns /uploads/<name>, and the file served
\* under that URL holds exactly the input bytes, all of them written before
\* the answer.
C5_RoundTrip ==
    \A i \in DOMAIN ureq :
        uresp[i] # <<>> /\ uresp[i][1].status = 200 =>
            /\ Len(uresp[i]) = 1
            /\ uresp[i][1].url = <<"uploads", uname[i]>>
            /\ ServedPath(uresp[i][1].url) \in DOMAIN files
            /\ files[ServedPath(uresp[i][1].url)] = ureq[i].file.bytes
            /\ uwritten[i] = Len(ureq[i].file.bytes)

\* Two uploads of different non-empty contents, made at the same clock
\* reading, have both been answered 200.
C5_Witness ==
    \E i, j \in DOMAIN ureq :
        /\ i # j
        /\ uresp[i] # <<>> /\ uresp[i][1].status = 200
        /\ uresp[j] # <<>> /\ uresp[j][1].status = 200
        /\ ureq[i].file.bytes # <<>> /\ ureq[j].file.bytes # <<>>
        /\ ureq[i].file.bytes # ureq[j].file.bytes
        /\ uname[i].ts = uname[j].ts


\* C6: at most one outbound operation is in flight, loading is non-null while
\* it is, and no step starts an operation while loading is non-null.
C6_State ==
    /\ Cardinality(InFlight) <= 1
    /\ InFlight # {} => loading # "null"
C6_Step ==
    loading # "null" => \A k \in Slots : ops[k].kind = "none" => ops'[k].kind = "none"
C6_SingleFlight == []C6_State /\ [][C6_Step]_vars

\* An edit is in flight while a captured frame has replaced the image it was
\* started for.
C6_Witness ==
    \E k \in Slots :
        /\ ops[k].kind = "edit"
        /\ file # ops[k].file
        /\ captureLog # <<>>
        /\ loading = "edit"

\* C7 (as claimed): whenever an outbound operation ends, loading is cleared
\* and the controller has a result or an error.
C7_LeavesPending ==
    [][ (\E k \in Slots : ops[k].kind # "none" /\ ops'[k].kind = "none") =>
            /\ loading' = "null"
            /\ resultUrl' # NoResult \/ error' # <<>> ]_vars

\* C8 (as claimed): when an outbound operation ends without a result, the
\* selected image is not changed and the result reference is the one that
\* existed before the operation was triggered.
C8_FailureFrame ==
    [][ \A k \in Slots :
            ops[k].kind # "none" /\ ops'[k].kind = "none" /\ resultUrl' = NoResult =>
                /\ file' = file
                /\ resultUrl' = ops[k].prior ]_vars

\* C9: at most one interval timer is active, and it is the one the ref holds;
\* while a countdown is active no step replaces or adds a timer or raises the
\* remaining count, which is 5 less the ticks counted; captureFrame is called
\* at the fifth tick after the start.
C9_State ==
    /\ Cardinality(timers) <= 1
    /\ timers \subseteq {countdownTimer}
    /\ isCountingDown => countdown = 5 - ticksDone /\ countdownTimer # 0
    /\ \A i \in 1..Len(captureLog) : captureLog[i] = 5
C9_Step ==
    isCountingDown /\ isCountingDown' =>
        /\ countdownTimer' = countdownTimer
        /\ timers' \subseteq timers
        /\ countdown' <= countdown
C9_SingleFlightCountdown == []C9_State /\ [][C9_Step]_vars

\* A countdown has completed at its fifth tick, two ticks having been
\* rendered together, and the captured frame is being encoded.
C9_Witness ==
    /\ captureLog # <<>>
    /\ ticksDone = 5
    /\ reentered
    /\ pendingBlobs > 0
    /\ ~isCountingDown

\* C10 (as claimed): captureFrame is called at most once per countdown, and
\* after completion the countdown state is reset.
C10_FiresOnce ==
    /\ Len(captureLog) <= 1
    /\ captureLog # <<>> /\ ~isCountingDown =>
          countdownTimer = 0 /\ timers = {} /\ countdown = Null

\* C11 (as claimed): after teardown no countdown effect happens: no interval
\* is active, no tick is queued, captureFrame is not called, and no capture
\* continuation calls the setters of the selected image, the result and the
\* error.
C11_State == ~mounted => timers = {} /\ "capture" \notin lateSets
C11_Step == ~mounted => pendingTicks' = pendingTicks /\ captureLog' = captureLog
C11_NoEffectAfterTeardown == []C11_State /\ [][C11_Step]_vars

\* C12 (as claimed): at most one acquired and not yet stopped stream exists,
\* and a release when the ref holds no stream stops nothing.
C12_State == liveStreams <= 1
C12_Step == streamRef = 0 /\ streamRef' = 0 => liveStreams' = liveStreams
C12_OneStream == []C12_State /\ [][C12_Step]_vars

\* C13 (as claimed): once the camera is toggled off or the component is torn
\* down no acquired stream is left running, also when its acquisition
\* settles after the teardown, and the ref never names a stopped stream.
C13_State ==
    /\ ~mounted => liveStreams = 0
    /\ streamRef # 0 => liveStreams > 0
C13_Step == cameraActive /\ ~cameraActive' => liveStreams' = 0
C13_ReleasedWhenOff == []C13_State /\ [][C13_Step]_vars

\* C14 (as claimed): every step that selects an image (a picked file or a
\* captured frame) leaves the result reference and the error null.
C14_SelectionClears ==
    [][ file' # file /\ file' # NoFile => resultUrl' = NoResult /\ error' = <<>> ]_vars

\* C15 (as claimed): a captureFrame call that ends before the frame is
\* encoded (no video element, no 2d context), and one whose toBlob yields
\* null, report a camera error and leave the selected image, the result
\* reference and the operation error as they were.
C15_FailsGracefully ==
    [][ LET calls == Len(captureLog') - Len(captureLog)
            drawn == pendingBlobs' - pendingBlobs
            ended == (calls > 0 /\ drawn < calls) \/
                     (mounted /\ pendingBlobs' < pendingBlobs /\ file' = file)
        IN  ended => /\ cameraError' # <<>>
                     /\ file' = file /\ resultUrl' = resultUrl /\ error' = error ]_vars

\* a parsed request with a File that passes the three validations
ValidRequest == ereq.parse /\ ereq.file.kind = "file" /\ EditValidation(ereq) = <<>>

\* the provider call failed: it was made and no answer came back
CallFailed == epc = "done" /\ ecalls # <<>> /\ eanswer = <<>>

\* C16 (as claimed): at most one provider call per invocation, exactly one
\* whenever the three validations pass, and a failed call is answered 500.
C16_ExactlyOneWhenValid ==
    /\ Len(ecalls) <= 1
    /\ epc = "done" /\ ValidRequest => Len(ecalls) = 1
    /\ CallFailed => eresp = <<EditCatch([isError |-> TRUE, message |-> "fetch failed"])>>
                      \/ eresp = <<EditCatch([isError |-> FALSE, message |-> ""])>>

\* C16 (amended): at most one provider call per invocation; exactly one once
\* the validations have passed and the file has been read and encoded; none
\* when reading the file fails, which is answered 500; a failed call is not
\* repeated and is answered 500 by the catch.
C16_SingleCall ==
    /\ Len(ecalls) <= 1
    /\ epc = "generateContent" => Len(ecalls) = 1 /\ eresp = <<>>
    /\ epc = "done" /\ ValidRequest /\ ecalls = <<>> =>
           Len(eresp) = 1 /\ eresp[1].status = 500 /\ eresp[1].json
    /\ ~ValidRequest => ecalls = <<>>
    /\ CallFailed =>
           /\ Len(ecalls) = 1
           /\ Len(eresp) = 1 /\ eresp[1].status = 500 /\ eresp[1].json
           /\ eresp[1].error \in {"fetch failed", "Server error"}

\* A valid request whose provider call failed has been answered.
C16_Witness == ValidRequest /\ CallFailed /\ eresp # <<>>

\* the part a successful extraction has selected: the first part of the
\* first candidate whose inlineData.data is defined
SelectedPart ==
    LET parts == eanswer[1][1]
        i == CHOOSE k \in 1..Len(parts) :
                 /\ parts[k].inline /\ parts[k].hasData
                 /\ \A j \in 1..(k - 1) : ~(parts[j].inline /\ parts[j].hasData)
    IN  parts[i]

EditSucceeded == epc = "done" /\ eresp # <<>> /\ eresp[1].status = 200

\* C17: a 200 response is the only response of the invocation; its body is
\* the byte sequence whose base64 encoding is the selected part's payload,
\* its Content-Type is the part's mimeType, or image/png when the part
\* declares none, and its Cache-Control is no-store.
C17_SuccessResponse ==
    EditSucceeded =>
        /\ Len(eresp) = 1 /\ ~eresp[1].json
        /\ Base64Encode(eresp[1].body) = SelectedPart.data
        /\ eresp[1].body # <<>>
        /\ eresp[1].contentType =
              IF SelectedPart.mimeType = "" THEN "image/png" ELSE SelectedPart.mimeType
        /\ eresp[1].cacheControl = "no-store"

\* A 200 response built from a part that declares no MIME type, standing
\* after a text part.
C17_Witness ==
    /\ EditSucceeded
    /\ SelectedPart.mimeType = ""
    /\ eresp[1].body = <<0, 255, 0>>
    /\ Len(eanswer[1][1]) = 2

\* the messages a caught failure can carry in these runs
FailureMessages == {"fetch failed", "Server error", "Upload failed", FsError.message}

InternalError(r) == r.status = 500 /\ r.json /\ r.error \in FailureMessages /\ r.body = <<>>

\* C18: an invocation of either handler has returned no response while it
\* runs and exactly one once it has ended; it can always take a further step
\* until then; and one that ends on a failure (the form does not parse, the
\* file cannot be read, mkdir or writeFile rejects, the provider call
\* rejects) has answered 500 with a JSON payload carrying the message.
C18_CaughtAtBoundary ==
    /\ epc \notin {"idle", "done"} => eresp = <<>> /\ ENABLED NextEdit
    /\ epc = "done" => Len(eresp) = 1
    /\ epc = "done" /\ ~ereq.parse => InternalError(eresp[1])
    /\ epc = "done" /\ ereq.parse /\ EditValidation(ereq) = <<>> /\ eanswer = <<>> =>
           InternalError(eresp[1])
    /\ \A i \in DOMAIN ureq :
          /\ upc[i] # "done" => uresp[i] = <<>> /\ ENABLED NextUpload
          /\ upc[i] = "done" => Len(uresp[i]) = 1
          /\ upc[i] = "done" /\ ~ureq[i].parse => InternalError(uresp[i][1])
          /\ upc[i] = "done" /\ ureq[i].parse /\ Truthy(ureq[i].file)
                /\ uresp[i][1].status # 200 => InternalError(uresp[i][1])

\* An upload whose write failed midway has been answered 500.
C18_Witness ==
    \E i \in DOMAIN ureq :
        /\ upc[i] = "done"
        /\ uwritten[i] > 0 /\ uwritten[i] < Len(ureq[i].file.bytes)
        /\ uresp[i] = <<UploadCatch(FsError)>>

Named(i) == uname[i] # NoName

\* C19: the final paths of any two invocations are distinct, and the file at
\* an invocation's path holds only what that invocation has written so far.
C19_NoCollision ==
    /\ \A i, j \in DOMAIN ureq :
          i # j /\ Named(i) /\ Named(j) => FilePath(uname[i]) # FilePath(uname[j])
    /\ \A i \in DOMAIN ureq :
          Named(i) /\ FilePath(uname[i]) \in DOMAIN files =>
              files[FilePath(uname[i])] = SubSeq(ureq[i].file.bytes, 1, uwritten[i])

\* Two uploads of the same original name, named at the same clock reading,
\* are both stored in full.
C19_Witness ==
    \E i, j \in DOMAIN ureq :
        /\ i # j
        /\ uname[i].ts = uname[j].ts /\ Named(i)
        /\ ureq[i].file.name = ureq[j].file.name
        /\ upc[i] = "done" /\ upc[j] = "done"
        /\ uwritten[i] = MaxBytes /\ uwritten[j] = MaxBytes
        /\ Cardinality(DOMAIN files) = 2

\* the extension of a file name: what follows its last ".", nothing when the
\* name has no "." or ends with one
ExtensionOf(name) ==
    LET dots == {i \in 1..Len(name) : name[i] = "."}
        last == CHOOSE d \in dots : \A e \in dots : e <= d
    IN  IF dots = {} THEN <<>> ELSE SubSeq(name, last + 1, Len(name))

\* C20 (as claimed): the stored name's extension is the lower-cased extension
\* of the original name, and png when the original name has none.
C20_Extension ==
    \A i \in DOMAIN ureq :
        Named(i) =>
            uname[i].ext = IF ExtensionOf(ureq[i].file.name) = <<>>
                           THEN <<"p", "n", "g">>
                           ELSE toLowerCase(ExtensionOf(ureq[i].file.name))

\* ---------------------------------------------------------------------------
\* C21  Every object URL created for a preview is released once it is replaced
\* or the component is torn down: when no operation is in flight, the object
\* URLs created and not revoked are at most the previews on display (the input
\* preview of the selected file and the result preview of an edit), and none
\* after teardown.
PreviewsShown ==
    IF mounted
    THEN (IF file # NoFile THEN 1 ELSE 0) + (IF resultUrl.kind = "edit" THEN 1 ELSE 0)
    ELSE 0
C21_ObjectUrlsReleased ==
    (objectUrls # Null /\ InFlight = {}) => objectUrls <= PreviewsShown

\* ---------------------------------------------------------------------------
\* C22  When safeJson settles for a non-success response, the error state
\* becomes the payload's `error` if the payload is parsable and carries one,
\* and the operation's fallback message otherwise, and is non-null either way;
\* a 2xx upload response whose payload carries no `url` leaves an error and no
\* result.
Fallback(kind) ==
    IF kind = "upload" THEN <<"Upload failed">>
    ELSE <<"Edit failed (check your /api/photobooth/edit backend)">>
FailureSettled(k) == Recorded /\ mounted /\ ops[k].stage = "json" /\ ops'[k].stage = "idle"
C22_Step ==
    \A k \in Slots :
        FailureSettled(k) =>
            LET d == ops[k].data IN
            IF ~ops[k].ok
            THEN /\ error' = IF d.parsed /\ d.error # <<>> THEN d.error ELSE Fallback(ops[k].kind)
                 /\ error' # <<>>
            ELSE ~(d.parsed /\ d.url) => error' = <<"Upload failed">> /\ resultUrl' = NoResult
C22_ErrorSurfaced == [][C22_Step]_vars
\* a non-success response whose payload carried a message has been surfaced
C22_Witness ==
    /\ mounted
    /\ error = <<"No image returned from model">>
    /\ resultUrl = NoResult
    /\ loading = "null"
    /\ InFlight = {}

\* ---------------------------------------------------------------------------
\* C23 (as claimed): on the photobooth page the result shown belongs to the
\* selected image: an edit that completes after another image was selected
\* does not install its result.
C23_ResultOfSelected ==
    (page = "photobooth" /\ resultUrl # NoResult) => resultUrl.file = file

\* ---------------------------------------------------------------------------
\* C24  The result reference and the operation error are never both non-null,
\* and while loading is non-null both are null.
C24_ResultOrError ==
    /\ ~(resultUrl # NoResult /\ error # <<>>)
    /\ loading # "null" => resultUrl = NoResult /\ error = <<>>
\* an operation is in flight that was started while a result was shown
C24_Witness ==
    /\ loading # "null"
    /\ \E k \in Slots : ops[k].kind # "none" /\ ops[k].prior # NoResult

\* ---------------------------------------------------------------------------
\* C25 (as claimed): a countdown timer is started, and a frame is drawn, only in a step
\* taken while the stream reference is held; a step taken without it starts
\* no countdown; and when a countdown completes while the camera is off, no
\* frame is drawn, the selected image, the result reference and the error
\* stay as they were, and isCountingDown is false afterwards.
CompletesCameraOff == mounted /\ ~cameraActive /\ Len(captureLog') > Len(captureLog)
C25_Step ==
    /\ (timers' \ timers # {} \/ (~isCountingDown /\ isCountingDown')) => streamRef # 0
    /\ pendingBlobs' > pendingBlobs => streamRef # 0
    /\ CompletesCameraOff =>
          /\ pendingBlobs' = pendingBlobs
          /\ file' = file /\ resultUrl' = resultUrl /\ error' = error
          /\ ~isCountingDown'
C25_OnlyWithStream == [][C25_Step]_vars

====
